---- MODULE Spec2Model ----
(***************************************************************************)
(* A model of minify_gzip.py: the PlatformIO pre-action that walks the     *)
(* data directory, minifies HTML/CSS/JS, gzips every file that is not      *)
(* already a .gz file and, after the walk, removes the originals.          *)
(*                                                                         *)
(* File contents are byte sequences.  A path is a record of the directory  *)
(* (a sequence of directory names below the data directory) and the file   *)
(* name (a sequence of characters).  The three minifiers are external      *)
(* libraries: what each returns for a file is drawn in Init (minifier).    *)
(* Stat, listing, read, write and remove faults are drawn when the step is *)
(* taken.                                                                  *)
(***************************************************************************)
EXTENDS Naturals, Sequences, FiniteSets

VARIABLES pc, dirs, fs, fs0, minifier, stack, root, files,
          files_to_delete, del_idx, out, calls, unlisted

vars == <<pc, dirs, fs, fs0, minifier, stack, root, files,
          files_to_delete, del_idx, out, calls, unlisted>>

(* ---------------------------- bounds ------------------------------------ *)

\* number of regular files in the data directory at the start of the run
MaxFiles == 2

(* ---------------------------- universe ---------------------------------- *)

\* the directory tree when the data directory exists (<<>> is data_dir)
DirUniverse == { <<>>, <<"d">>, <<"d", "e">> }

\* the files that may exist at the start (os.path.join(root, file)), in two
\* groups; a start tree takes its files from one group.  One has a script
\* with an already-gzipped sibling in the data directory and a file with no
\* extension two levels down; the other has upper-case and mixed-case
\* extensions one and two levels down
PathUniverseA ==
  { [dir |-> <<>>, name |-> <<"a", ".", "j", "s">>],
    [dir |-> <<>>, name |-> <<"a", ".", "j", "s", ".", "g", "z">>],
    [dir |-> <<"d", "e">>, name |-> <<"p">>] }

PathUniverseB ==
  { [dir |-> <<"d">>, name |-> <<"B", ".", "C", "S", "S">>],
    [dir |-> <<"d", "e">>, name |-> <<"X", ".", "G", "Z">>],
    [dir |-> <<"d">>, name |-> <<"i", ".", "H", "t", "m", "l">>] }

PathUniverse == { PathUniverseA, PathUniverseB }

\* contents a file may have at the start: empty, a two-byte UTF-8 character,
\* and a byte that is not valid UTF-8
ContentUniverse == { <<>>, <<195, 169>>, <<255>> }

\* texts (sequences of code points) a minifier may return
TextUniverse == { <<>>, <<233>> }

(* ---------------------------- pure helpers ------------------------------ *)

\* str.lower() on one character
LowerChar(c) ==
  CASE c = "B" -> "b" [] c = "C" -> "c" [] c = "G" -> "g" [] c = "H" -> "h"
    [] c = "S" -> "s" [] c = "X" -> "x" [] c = "Z" -> "z" [] OTHER -> c

Lower(s) == [i \in 1..Len(s) |-> LowerChar(s[i])]

\* os.path.splitext(name)[1]: from the last dot on, unless every character
\* before that dot is a dot too (leading dots are not an extension)
LastDot(s) ==
  IF \E i \in 1..Len(s) : s[i] = "."
    THEN CHOOSE i \in 1..Len(s) : s[i] = "." /\ \A j \in (i+1)..Len(s) : s[j] # "."
    ELSE 0

splitext1(s) ==
  LET d == LastDot(s) IN
    IF d > 0 /\ (\E j \in 1..(d-1) : s[j] # ".")
      THEN SubSeq(s, d, Len(s))
      ELSE <<>>

file_ext(name) == Lower(splitext1(name))

GzExt == <<".", "g", "z">>

\* variant: the empty extension is treated as minifiable too
MinifyExts_withEmpty ==
  { <<".", "h", "t", "m", "l">>, <<".", "c", "s", "s">>, <<".", "j", "s">>, <<>> }

MinifyExts == { <<".", "h", "t", "m", "l">>, <<".", "c", "s", "s">>, <<".", "j", "s">> }

\* which library handles the extension
MinifierFor(ext) ==
  CASE ext = <<".", "h", "t", "m", "l">> -> "minify_html.minify"
    [] ext = <<".", "c", "s", "s">> -> "rcssmin.cssmin"
    [] ext = <<".", "j", "s">> -> "rjsmin.jsmin"
    [] OTHER -> "none"

Path(d, n) == [dir |-> d, name |-> n]

\* file_path + ".gz"
gzipped_file_path(p) == [dir |-> p.dir, name |-> p.name \o GzExt]

\* bytes.decode('utf-8') raises unless the bytes are well-formed (one- and
\* two-byte sequences are modelled)
RECURSIVE CanDecode(_)
CanDecode(b) ==
  IF b = <<>> THEN TRUE
  ELSE IF b[1] < 128 THEN CanDecode(Tail(b))
  ELSE IF b[1] >= 194 /\ b[1] <= 223 /\ Len(b) >= 2 /\ b[2] >= 128 /\ b[2] <= 191
    THEN CanDecode(SubSeq(b, 3, Len(b)))
  ELSE FALSE

\* bytes.decode('utf-8') of well-formed bytes: the code points
RECURSIVE decode(_)
decode(b) ==
  IF b = <<>> THEN <<>>
  ELSE IF b[1] < 128 THEN <<b[1]>> \o decode(Tail(b))
  ELSE <<(b[1] - 192) * 64 + (b[2] - 128)>> \o decode(SubSeq(b, 3, Len(b)))

\* str.encode('utf-8') for code points below 2048
RECURSIVE encode(_)
encode(t) ==
  IF t = <<>> THEN <<>>
  ELSE IF t[1] < 128 THEN <<t[1]>> \o encode(Tail(t))
  ELSE <<192 + (t[1] \div 64), 128 + (t[1] % 64)>> \o encode(Tail(t))

\* gzip.open(..., compresslevel=9) then write and close: the gzip member,
\* abridged to the header fields magic, method (deflate) and XFL (2 for the
\* maximum level), the payload, and a trailer (the payload's length modulo
\* 256, standing for CRC32 and ISIZE)
compresslevel == 9
GzipHeader(level) == <<31, 139, 8, IF level = 9 THEN 2 ELSE 0>>
gzip_bytes(data) == GzipHeader(compresslevel) \o data \o <<Len(data) % 256>>

RECURSIVE Perms(_)
Perms(S) ==
  IF S = {} THEN { <<>> }
  ELSE UNION { { <<x>> \o q : q \in Perms(S \ {x}) } : x \in S }

RECURSIVE SubsetsUpTo(_, _)
SubsetsUpTo(S, k) ==
  IF k = 0 THEN { {} }
  ELSE LET R == SubsetsUpTo(S, k - 1) IN R \cup { T \cup {x} : T \in R, x \in S }

\* a log line: the message and the file it is about
NoPath == Path(<<>>, <<>>)
Line(m, p) == [msg |-> m, path |-> p]

(* ---------------------------- the minifiers ----------------------------- *)

\* what the library returns for a file's text: a text, or an exception
Raised == [raises |-> TRUE, text |-> <<>>]
Returned(t) == [raises |-> FALSE, text |-> t]
Results == { Raised } \cup { Returned(t) : t \in TextUniverse }

NeedsMinify(p) == file_ext(p.name) \in MinifyExts

\* lines 61-82: minified_content_bytes (some = FALSE is None) and is_minified
NoneBytes == [some |-> FALSE, bytes |-> <<>>, is_minified |-> FALSE]
Minified(p, content_bytes) ==
  IF NeedsMinify(p) /\ CanDecode(content_bytes) /\ ~minifier[p].raises
    THEN [some |-> TRUE, bytes |-> encode(minifier[p].text), is_minified |-> TRUE]
    ELSE NoneBytes

\* the except branch of lines 80-82 is taken
MinifyRaised(p, content_bytes) ==
  NeedsMinify(p) /\ (~CanDecode(content_bytes) \/ minifier[p].raises)

\* the library calls made for the file (none when decoding raises first)
CallsFor(p, content_bytes) ==
  IF NeedsMinify(p) /\ CanDecode(content_bytes)
    THEN { [fn |-> MinifierFor(file_ext(p.name)), path |-> p, text |-> decode(content_bytes)] }
    ELSE {}

\* variant: no fallback to the original bytes
content_to_compress_noFallback(m, content_bytes) == m.bytes

\* line 85: None and b'' are both falsy
content_to_compress(m, content_bytes) ==
  IF m.some /\ m.bytes # <<>> THEN m.bytes ELSE content_bytes

(* ---------------------------- the run ----------------------------------- *)

Init ==
  /\ dirs \in { {}, DirUniverse }
  /\ \E U \in PathUniverse :
     \E P \in SubsetsUpTo({ p \in U : p.dir \in dirs }, MaxFiles) :
       /\ fs \in [P -> ContentUniverse]
       /\ minifier \in [{ p \in P : NeedsMinify(p) } -> Results]
  /\ \A p \in DOMAIN minifier : ~CanDecode(fs[p]) => minifier[p] = Raised
  /\ fs0 = fs
  /\ pc = "start"
  /\ stack = <<>>
  /\ root = <<>>
  /\ files = <<>>
  /\ files_to_delete = <<>>
  /\ del_idx = 1
  /\ out = <<>>
  /\ calls = {}
  /\ unlisted = {}

\* line 31: what os.path.isdir(data_dir) can answer: False when the data
\* directory is absent, and also when it exists but cannot be stat'ed
isdir == IF <<>> \in dirs THEN { TRUE, FALSE } ELSE { FALSE }

\* lines 30-33: isdir answers False: the run prints one line and returns,
\* whatever is on disk
NoDataDir ==
  /\ pc = "start"
  /\ FALSE \in isdir
  /\ out' = Append(out, Line("no_data_dir", NoPath))
  /\ pc' = "done"
  /\ UNCHANGED <<unlisted, dirs, fs, fs0, minifier, stack, root, files, files_to_delete, del_idx, calls>>

\* lines 35-42: the walk starts at the data directory
Start ==
  /\ pc = "start"
  /\ TRUE \in isdir
  /\ out' = Append(out, Line("begin", NoPath))
  /\ files_to_delete' = <<>>
  /\ stack' = << <<>> >>
  /\ pc' = "walk"
  /\ UNCHANGED <<unlisted, dirs, fs, fs0, minifier, root, files, del_idx, calls>>

FilesOf(d) == { p.name : p \in { q \in DOMAIN fs : q.dir = d } }
SubDirs(d) == { e \in dirs : Len(e) = Len(d) + 1 /\ SubSeq(e, 1, Len(d)) = d }

\* line 42: os.walk lists the next directory (top-down, in listing order)
WalkNext ==
  /\ pc = "walk"
  /\ files = <<>>
  /\ stack # <<>>
  /\ root' = Head(stack)
  /\ files' \in Perms(FilesOf(Head(stack)))
  /\ stack' \in { q \o Tail(stack) : q \in Perms(SubDirs(Head(stack))) }
  /\ UNCHANGED <<unlisted, pc, dirs, fs, fs0, minifier, files_to_delete, del_idx, out, calls>>

\* line 42: os.walk cannot list the next directory; it is called without
\* onerror, so the error is swallowed: the directory yields nothing, nothing
\* is printed and the walk does not descend into it
WalkUnlistable ==
  /\ pc = "walk"
  /\ files = <<>>
  /\ stack # <<>>
  /\ stack' = Tail(stack)
  /\ unlisted' = unlisted \cup { Head(stack) }
  /\ UNCHANGED <<pc, dirs, fs, fs0, minifier, root, files, files_to_delete, del_idx, out, calls>>

file_path == Path(root, Head(files))

\* lines 48-50: a file that is already gzipped is skipped
SkipGz ==
  /\ pc = "walk"
  /\ files # <<>>
  /\ file_ext(Head(files)) = GzExt
  /\ out' = Append(out, Line("skip", file_path))
  /\ files' = Tail(files)
  /\ UNCHANGED <<unlisted, pc, dirs, fs, fs0, minifier, stack, root, files_to_delete, del_idx, calls>>

\* variant: a file whose read failed is queued for deletion all the same
ReadFail_queues ==
  /\ pc = "walk"
  /\ files # <<>>
  /\ file_ext(Head(files)) # GzExt
  /\ out' = out \o << Line("processing", file_path), Line("read_error", file_path) >>
  /\ files' = Tail(files)
  /\ files_to_delete' = Append(files_to_delete, file_path)
  /\ UNCHANGED <<unlisted, pc, dirs, fs, fs0, minifier, stack, root, del_idx, calls>>

\* lines 54-59: reading the file raises
ReadFail ==
  /\ pc = "walk"
  /\ files # <<>>
  /\ file_ext(Head(files)) # GzExt
  /\ out' = out \o << Line("processing", file_path), Line("read_error", file_path) >>
  /\ files' = Tail(files)
  /\ UNCHANGED <<unlisted, pc, dirs, fs, fs0, minifier, stack, root, files_to_delete, del_idx, calls>>

Warning(p, content_bytes) ==
  IF MinifyRaised(p, content_bytes) THEN << Line("minify_warning", p) >> ELSE <<>>

\* variant: the original is removed as soon as its .gz is written
GzipOk_removes ==
  /\ pc = "walk"
  /\ files # <<>>
  /\ file_ext(Head(files)) # GzExt
  /\ file_path \in DOMAIN fs
  /\ LET content_bytes == fs[file_path]
         m == Minified(file_path, content_bytes)
         gz == gzipped_file_path(file_path)
     IN /\ calls' = calls \cup CallsFor(file_path, content_bytes)
        /\ fs' = [q \in (DOMAIN fs \cup {gz}) \ {file_path} |->
                    IF q = gz THEN gzip_bytes(content_to_compress(m, content_bytes))
                    ELSE fs[q]]
        /\ out' = out \o << Line("processing", file_path) >>
                      \o Warning(file_path, content_bytes)
                      \o << Line(IF m.is_minified THEN "ok_minified" ELSE "ok_not_minified",
                                 file_path) >>
        /\ files_to_delete' = files_to_delete
  /\ files' = Tail(files)
  /\ UNCHANGED <<unlisted, pc, dirs, fs0, minifier, stack, root, del_idx>>

\* lines 54-99: read, minify, gzip written and closed, original queued
GzipOk ==
  /\ pc = "walk"
  /\ files # <<>>
  /\ file_ext(Head(files)) # GzExt
  /\ file_path \in DOMAIN fs
  /\ LET content_bytes == fs[file_path]
         m == Minified(file_path, content_bytes)
         gz == gzipped_file_path(file_path)
     IN /\ calls' = calls \cup CallsFor(file_path, content_bytes)
        /\ fs' = [q \in DOMAIN fs \cup {gz} |->
                    IF q = gz THEN gzip_bytes(content_to_compress(m, content_bytes))
                    ELSE fs[q]]
        /\ out' = out \o << Line("processing", file_path) >>
                      \o Warning(file_path, content_bytes)
                      \o << Line(IF m.is_minified THEN "ok_minified" ELSE "ok_not_minified",
                                 file_path) >>
        /\ files_to_delete' = Append(files_to_delete, file_path)
  /\ files' = Tail(files)
  /\ UNCHANGED <<unlisted, pc, dirs, fs0, minifier, stack, root, del_idx>>

\* a write that is cut: the file was created or truncated and holds a proper
\* prefix of the member (nothing, part of the header, the header, part or
\* all of the payload without the trailer)
CutWrites(data) ==
  LET member == gzip_bytes(data) IN
    { SubSeq(member, 1, k) : k \in 0..(Len(member) - 1) }

\* lines 90-91, 101-102: the file systems a failed gzip write may leave:
\* gzip.open raised (nothing changes), or the write was cut
FailedWrite(gz, data) ==
  { fs } \cup { [q \in DOMAIN fs \cup {gz} |-> IF q = gz THEN b ELSE fs[q]] :
                 b \in CutWrites(data) }

\* variant: the original is queued although the gzip write raised
GzipFail_queues ==
  /\ pc = "walk"
  /\ files # <<>>
  /\ file_ext(Head(files)) # GzExt
  /\ file_path \in DOMAIN fs
  /\ LET content_bytes == fs[file_path]
         m == Minified(file_path, content_bytes)
         gz == gzipped_file_path(file_path)
     IN /\ calls' = calls \cup CallsFor(file_path, content_bytes)
        /\ fs' \in FailedWrite(gz, content_to_compress(m, content_bytes))
        /\ out' = out \o << Line("processing", file_path) >>
                      \o Warning(file_path, content_bytes)
                      \o << Line("gzip_error", file_path) >>
  /\ files' = Tail(files)
  /\ files_to_delete' = Append(files_to_delete, file_path)
  /\ UNCHANGED <<unlisted, pc, dirs, fs0, minifier, stack, root, del_idx>>

\* variant: a gzip write that raises ends the walk (the exception leaves the loops)
GzipFail_aborts ==
  /\ pc = "walk"
  /\ files # <<>>
  /\ file_ext(Head(files)) # GzExt
  /\ file_path \in DOMAIN fs
  /\ LET content_bytes == fs[file_path]
         m == Minified(file_path, content_bytes)
         gz == gzipped_file_path(file_path)
     IN /\ calls' = calls \cup CallsFor(file_path, content_bytes)
        /\ fs' \in FailedWrite(gz, content_to_compress(m, content_bytes))
        /\ out' = out \o << Line("processing", file_path) >>
                      \o Warning(file_path, content_bytes)
                      \o << Line("gzip_error", file_path) >>
  /\ files' = <<>>
  /\ stack' = <<>>
  /\ UNCHANGED <<unlisted, pc, dirs, fs0, minifier, root, files_to_delete, del_idx>>

\* lines 54-91, 101-102: read, minify, then the gzip write raises
GzipFail ==
  /\ pc = "walk"
  /\ files # <<>>
  /\ file_ext(Head(files)) # GzExt
  /\ file_path \in DOMAIN fs
  /\ LET content_bytes == fs[file_path]
         m == Minified(file_path, content_bytes)
         gz == gzipped_file_path(file_path)
     IN /\ calls' = calls \cup CallsFor(file_path, content_bytes)
        /\ fs' \in FailedWrite(gz, content_to_compress(m, content_bytes))
        /\ out' = out \o << Line("processing", file_path) >>
                      \o Warning(file_path, content_bytes)
                      \o << Line("gzip_error", file_path) >>
  /\ files' = Tail(files)
  /\ UNCHANGED <<unlisted, pc, dirs, fs0, minifier, stack, root, files_to_delete, del_idx>>

\* line 105: the walk is exhausted, the deletion loop begins
WalkDone ==
  /\ pc = "walk"
  /\ files = <<>>
  /\ stack = <<>>
  /\ pc' = "delete"
  /\ del_idx' = 1
  /\ UNCHANGED <<unlisted, dirs, fs, fs0, minifier, stack, root, files, files_to_delete, out, calls>>

file_to_del == files_to_delete[del_idx]

\* lines 105-108: os.remove succeeds
RemoveOk ==
  /\ pc = "delete"
  /\ del_idx <= Len(files_to_delete)
  /\ file_to_del \in DOMAIN fs
  /\ fs' = [q \in DOMAIN fs \ {file_to_del} |-> fs[q]]
  /\ out' = Append(out, Line("deleted", file_to_del))
  /\ del_idx' = del_idx + 1
  /\ UNCHANGED <<unlisted, pc, dirs, fs0, minifier, stack, root, files, files_to_delete, calls>>

\* variant: a removal that raises ends the deletion loop
RemoveFail_breaks ==
  /\ pc = "delete"
  /\ del_idx <= Len(files_to_delete)
  /\ out' = Append(out, Line("delete_error", file_to_del))
  /\ del_idx' = Len(files_to_delete) + 1
  /\ UNCHANGED <<unlisted, pc, dirs, fs, fs0, minifier, stack, root, files, files_to_delete, calls>>

\* lines 105-110: os.remove raises
RemoveFail ==
  /\ pc = "delete"
  /\ del_idx <= Len(files_to_delete)
  /\ out' = Append(out, Line("delete_error", file_to_del))
  /\ del_idx' = del_idx + 1
  /\ UNCHANGED <<unlisted, pc, dirs, fs, fs0, minifier, stack, root, files, files_to_delete, calls>>

\* line 112: the run completes
Finish ==
  /\ pc = "delete"
  /\ del_idx > Len(files_to_delete)
  /\ out' = Append(out, Line("complete", NoPath))
  /\ pc' = "done"
  /\ UNCHANGED <<unlisted, dirs, fs, fs0, minifier, stack, root, files, files_to_delete, del_idx, calls>>

Next ==
  \/ NoDataDir
  \/ Start
  \/ WalkNext
  \/ WalkUnlistable
  \/ SkipGz
  \/ ReadFail
  \/ GzipOk
  \/ GzipFail
  \/ WalkDone
  \/ RemoveOk
  \/ RemoveFail
  \/ Finish

Spec == Init /\ [][Next]_vars

\* the script is single-threaded and blocking: it keeps taking steps
FairSpec == Spec /\ WF_vars(Next)

(* ---------------------------- vocabulary of the claims ------------------ *)

Logged(m, p) == \E i \in 1..Len(out) : out[i] = Line(m, p)

InQueue(p) == \E i \in 1..Len(files_to_delete) : files_to_delete[i] = p

\* the extensions the specification names, written out independently of the run
HtmlCssJs == { <<".", "h", "t", "m", "l">>, <<".", "c", "s", "s">>, <<".", "j", "s">> }
DotGz == <<".", "g", "z">>

\* files present at the start: already gzipped, and the others (eligible)
GzNamed0 == { p \in DOMAIN fs0 : file_ext(p.name) = DotGz }
Eligible0 == DOMAIN fs0 \ GzNamed0

\* gzip.decompress: defined for a complete member only (header, payload,
\* trailer)
IsGzip(b) ==
  /\ Len(b) >= 5
  /\ SubSeq(b, 1, 4) = GzipHeader(compresslevel)
  /\ b[Len(b)] = (Len(b) - 5) % 256
gunzip(b) == SubSeq(b, 5, Len(b) - 1)

WrittenOk(p) == Logged("ok_minified", p) \/ Logged("ok_not_minified", p)

\* the decoded payload of the .gz written next to p is exactly b
GzHolds(p, b) ==
  LET gz == gzipped_file_path(p) IN
    /\ gz \in DOMAIN fs
    /\ IsGzip(fs[gz])
    /\ gunzip(fs[gz]) = b

\* the walk found the file: neither its directory nor one above it failed
\* to be listed
Discovered(p) == \A k \in 0..Len(p.dir) : SubSeq(p.dir, 1, k) \notin unlisted

\* no file read, gzip write or removal failed
NoStepFailed ==
  \A i \in 1..Len(out) : out[i].msg \notin { "read_error", "gzip_error", "delete_error" }

(* ---------------------------- C1 ---------------------------------------- *)

\* C1: every file whose lower-cased extension is .gz at the start is left
\* untouched by the run: it still exists with the same bytes, it is never
\* queued for deletion and no <name>.gz.gz is created, also when an eligible
\* sibling <name-without-.gz> is present.
C1_GzUntouched ==
  \A p \in GzNamed0 :
    /\ p \in DOMAIN fs
    /\ fs[p] = fs0[p]
    /\ ~InQueue(p)
    /\ gzipped_file_path(p) \notin DOMAIN fs

(* ---------------------------- C2 ---------------------------------------- *)

\* C2: for a file with extension .html/.css/.js (case-insensitively) whose
\* bytes decode as UTF-8 and whose minifier returns, the bytes written into
\* <path>.gz are the UTF-8 encoding of the minifier's output, whatever that
\* output is, the empty text included.
C2_GzIsMinified ==
  \A p \in Eligible0 :
    ( /\ file_ext(p.name) \in HtmlCssJs
      /\ CanDecode(fs0[p])
      /\ ~minifier[p].raises
      /\ WrittenOk(p) )
    => GzHolds(p, encode(minifier[p].text))

(* ---------------------------- C3 ---------------------------------------- *)

\* C3: after a run in which no read, write or delete step failed, every
\* file present at the start whose lower-cased extension is not .gz is gone
\* and its <original>.gz exists, in every directory level, and no directory
\* was removed or created.
C3_OriginalsReplaced ==
  (pc = "done" /\ NoStepFailed) =>
    /\ \A p \in Eligible0 : p \notin DOMAIN fs /\ gzipped_file_path(p) \in DOMAIN fs
    /\ \A p \in DOMAIN fs0 : p.dir \in dirs

(* ---------------------------- C4 ---------------------------------------- *)

\* C4: in every reachable state every path in files_to_delete is an original
\* file whose <path>.gz has been completely written and closed in this run;
\* a path is in the list at most once; no skipped .gz file and no file whose
\* read or gzip write failed is in the list.
C4_QueueOnlyAfterGz ==
  /\ \A i \in 1..Len(files_to_delete) :
       LET p == files_to_delete[i] IN
         /\ p \in DOMAIN fs0
         /\ file_ext(p.name) # DotGz
         /\ WrittenOk(p)
         /\ gzipped_file_path(p) \in DOMAIN fs
         /\ IsGzip(fs[gzipped_file_path(p)])
         /\ ~Logged("skip", p)
         /\ ~Logged("read_error", p)
         /\ ~Logged("gzip_error", p)
  /\ \A i, j \in 1..Len(files_to_delete) :
       i # j => files_to_delete[i] # files_to_delete[j]

C4_Witness ==
  /\ pc = "delete"
  /\ \E p \in DOMAIN fs0, q \in DOMAIN fs0 :
       /\ files_to_delete = << p >>
       /\ Logged("gzip_error", q)
       /\ gzipped_file_path(q) \in DOMAIN fs

(* ---------------------------- C5 ---------------------------------------- *)

RemoveAttempted ==
  \E i \in 1..Len(out) : out[i].msg \in { "deleted", "delete_error" }

\* C5: no original is removed while the walk is in progress: a removal has
\* happened only once every file the walk discovers has been skipped or
\* processed, and the file the walk is at is still present.
C5_DeletionDeferred ==
  /\ (RemoveAttempted \/ ~(DOMAIN fs0 \subseteq DOMAIN fs)) =>
       /\ pc \in { "delete", "done" }
       /\ files = <<>> /\ stack = <<>>
       /\ \A p \in DOMAIN fs0 : Discovered(p) => Logged("skip", p) \/ Logged("processing", p)
  /\ pc \in { "start", "walk" } => \A p \in DOMAIN fs0 : p \in DOMAIN fs
  /\ (pc = "walk" /\ files # <<>>) => file_path \in DOMAIN fs

C5_Witness ==
  /\ pc = "delete"
  /\ del_idx = 2
  /\ Len(files_to_delete) = 2
  /\ files_to_delete[1] \notin DOMAIN fs
  /\ files_to_delete[2] \in DOMAIN fs

(* ---------------------------- C6 ---------------------------------------- *)

Faulted(p) ==
  Logged("read_error", p) \/ Logged("minify_warning", p) \/ Logged("gzip_error", p)

\* what a fault-free run writes for p: a function of p's own bytes and of
\* its minifier's answer only
FaultFreePayload(p) ==
  IF file_ext(p.name) \in HtmlCssJs /\ CanDecode(fs0[p]) /\ ~minifier[p].raises
       /\ encode(minifier[p].text) # <<>>
    THEN encode(minifier[p].text)
    ELSE fs0[p]

\* whether the walk gets to p: decided by what isdir answered for the data
\* directory and by which directories os.walk could list, not by any file's
\* read, minify or write; the same in the run with and without those faults
Reached(p) == ~Logged("no_data_dir", NoPath) /\ Discovered(p)

\* a file without a fault of its own that the walk gets to ends processed:
\* its .gz holds the fault-free payload, it was queued and its removal was
\* carried out, whatever happened to the other files
C6_OthersProcessed ==
  pc = "done" =>
    \A p \in Eligible0 :
      (Reached(p) /\ ~Faulted(p)) =>
        /\ GzHolds(p, FaultFreePayload(p))
        /\ InQueue(p)
        /\ Logged("deleted", p) \/ Logged("delete_error", p)
        /\ Logged("deleted", p) => p \notin DOMAIN fs

\* a file the walk does not get to is left as it is, whatever happened to
\* the other files
C6_UnreachedKept ==
  \A p \in Eligible0 :
    ~Reached(p) => (p \in DOMAIN fs /\ fs[p] = fs0[p] /\ ~InQueue(p) /\ ~Faulted(p))

C7_FallbackToRaw ==
  \A p \in Eligible0 :
    ( /\ file_ext(p.name) \in HtmlCssJs
      /\ ~CanDecode(fs0[p]) \/ minifier[p].raises
      /\ WrittenOk(p) )
    => /\ GzHolds(p, fs0[p])
       /\ Logged("minify_warning", p)
       /\ Logged("ok_not_minified", p)
       /\ ~Logged("ok_minified", p)
       /\ InQueue(p)
       /\ pc = "done" => Logged("deleted", p) \/ Logged("delete_error", p)
       /\ Logged("deleted", p) => p \notin DOMAIN fs

C7_Witness ==
  /\ pc = "done"
  /\ \E p \in Eligible0, q \in Eligible0 :
       /\ file_ext(p.name) \in HtmlCssJs /\ ~CanDecode(fs0[p])
       /\ Logged("deleted", p) /\ GzHolds(p, fs0[p])
       /\ file_ext(q.name) \in HtmlCssJs /\ CanDecode(fs0[q]) /\ minifier[q].raises
       /\ fs0[q] # <<>>
       /\ Logged("deleted", q) /\ GzHolds(q, fs0[q])

(* ---------------------------- C8 ---------------------------------------- *)

\* C8: an original whose processing failed is never deleted.  A file whose
\* read failed gets no <path>.gz written and is not queued; a file whose
\* gzip write failed is not queued; either way the original is still there
\* with its bytes, up to and including the end of the run.
C8_FailedOriginalKept ==
  \A p \in Eligible0 :
    /\ Logged("read_error", p) =>
         /\ ~InQueue(p)
         /\ ~WrittenOk(p)
         /\ LET gz == gzipped_file_path(p) IN
              gz \in DOMAIN fs => (gz \in DOMAIN fs0 /\ fs[gz] = fs0[gz])
         /\ p \in DOMAIN fs /\ fs[p] = fs0[p]
    /\ Logged("gzip_error", p) =>
         /\ ~InQueue(p)
         /\ p \in DOMAIN fs /\ fs[p] = fs0[p]

C8_Witness ==
  /\ pc = "done"
  /\ \E p \in Eligible0, q \in Eligible0 :
       /\ Logged("read_error", p) /\ p \in DOMAIN fs
       /\ Logged("gzip_error", q) /\ q \in DOMAIN fs
       /\ gzipped_file_path(q) \in DOMAIN fs

(* ---------------------------- C9 ---------------------------------------- *)

\* C9: for a file whose lower-cased extension is none of .html, .css, .js
\* and .gz, no minifier is called and what is written to <path>.gz is the
\* original bytes, the empty content included.
C9_OpaqueIsRaw ==
  \A p \in Eligible0 :
    file_ext(p.name) \notin HtmlCssJs =>
      /\ \A c \in calls : c.path # p
      /\ ~Logged("minify_warning", p)
      /\ ~Logged("ok_minified", p)
      /\ WrittenOk(p) => GzHolds(p, fs0[p])

C9_Witness ==
  /\ pc = "done"
  /\ \E p \in Eligible0 :
       /\ file_ext(p.name) \notin HtmlCssJs /\ fs0[p] = <<>>
       /\ WrittenOk(p) /\ GzHolds(p, <<>>)
       /\ Logged("deleted", p)
  /\ calls # {}

(* ---------------------------- C10 --------------------------------------- *)

IsAttempt(l) == l.msg \in { "deleted", "delete_error" }
Attempts == SelectSeq(out, IsAttempt)

C10_EveryQueuedAttempted ==
  /\ pc \in { "start", "walk" } => Attempts = <<>>
  /\ pc \in { "delete", "done" } =>
       /\ Len(Attempts) = del_idx - 1
       /\ \A i \in 1..Len(Attempts) :
            /\ Attempts[i].path = files_to_delete[i]
            /\ Attempts[i].msg = "deleted" => files_to_delete[i] \notin DOMAIN fs
  /\ pc = "done" => Len(Attempts) = Len(files_to_delete)

\* C10: in the pass after the walk every queued path gets exactly one removal
\* attempt, in list order, whether or not earlier removals failed, and the
\* run completes.
C10_DeletionsIndependent ==
  /\ [](C10_EveryQueuedAttempted)
  /\ [](pc = "delete" => <>(pc = "done"))

C10_Witness ==
  /\ pc = "done"
  /\ Len(Attempts) = 2
  /\ Attempts[1].msg = "delete_error"
  /\ Attempts[2].msg = "deleted"
  /\ files_to_delete[1] \in DOMAIN fs
  /\ files_to_delete[2] \notin DOMAIN fs

====
